---- MODULE Spec2Model ----
(***************************************************************************)
(* Model of src/src/ancillary.rs: the SocketAncillary buffer (write path   *)
(* add_fds / add_creds / clear) and the Messages iterator (read path).     *)
(*                                                                         *)
(* Platform: 64-bit Linux. usize is 8 bytes, c_uint/u32 4 bytes, cmsghdr   *)
(* is { cmsg_len: usize, cmsg_level: i32, cmsg_type: i32 } = 16 bytes,     *)
(* little endian. The libc CMSG_* helpers the source calls are modelled as *)
(* libc defines them for Linux.                                            *)
(*                                                                         *)
(* The buffer is the sequence of its bytes; the byte at offset i is its    *)
(* element i + 1. Sizes that can exceed 2^31 (a source slice of up to 2^32 *)
(* bytes) are kept in 4-byte                                               *)
(* words: every size the write path computes is a multiple of 4, so the    *)
(* arithmetic, and its wrap-around at the width of c_uint (2^32 bytes =    *)
(* 2^30 words), is exact.                                                  *)
(***************************************************************************)
EXTENDS Integers, Sequences, FiniteSets, TLC

\* ------------------------------------------------------------- bounds
\* capacity() of the caller's buffer, in bytes
Capacity == 56
\* longest descriptor sequence whose elements are spelled out
MaxFds == 2
\* longest credential sequence whose elements are spelled out
MaxCreds == 1

\* ------------------------------------------------- platform constants
SizeOfCmsghdr == 16
SizeOfUsize == 8
SizeOfRawFd == 4
SizeOfUcred == 12
SOL_SOCKET == 1
SCM_RIGHTS == 1
SCM_CREDENTIALS == 2
\* the null pointer of CMSG_FIRSTHDR / CMSG_NXTHDR
NULL == -1
\* 2^32 bytes in 4-byte words: the first size a c_uint / u32 cannot hold
U32Words == 2^30
\* stands for every usize of 2^24 or more read from the buffer (far beyond
\* any offset of the buffer; the bytes the model writes keep it below 2^63,
\* so adding it to an address does not wrap)
UsizeHuge == 2^24


\* ------------------------------------------------------ byte encoding
\* the 4 little-endian bytes of a 32-bit integer (two's complement)
Le32(v) ==
    << v % 256, (v \div 256) % 256, (v \div 65536) % 256,
       (v \div 16777216) % 256 >>

\* read_unaligned::<i32> at off
ReadI32(buf, off) ==
    LET top == buf[off + 4] IN
    buf[off + 1] + 256 * buf[off + 2] + 65536 * buf[off + 3]
        + 16777216 * (IF top >= 128 THEN top - 256 ELSE top)

\* read_unaligned::<u32> at off (the model's uid/gid bytes stay below 2^31)
ReadU32(buf, off) ==
    buf[off + 1] + 256 * buf[off + 2] + 65536 * buf[off + 3]
        + 16777216 * buf[off + 4]

\* a usize field (cmsg_len) at off
ReadUsize(buf, off) ==
    IF \A k \in 4 .. 8 : buf[off + k] = 0
    THEN buf[off + 1] + 256 * buf[off + 2] + 65536 * buf[off + 3]
    ELSE UsizeHuge

\* bytes copied to buf[off ..]; the caller keeps off + Len(bytes) in range
WriteBytes(buf, off, bytes) ==
    SubSeq(buf, 1, off) \o bytes \o SubSeq(buf, off + Len(bytes) + 1, Len(buf))

WriteUsize(buf, off, v) == WriteBytes(buf, off, Le32(v) \o <<0, 0, 0, 0>>)

\* the raw bytes of a RawFd
FdBytes(fd) == Le32(fd)

\* the raw bytes of a libc::ucred { pid, uid, gid }
CredBytes(c) == Le32(c.pid) \o Le32(c.uid) \o Le32(c.gid)

RECURSIVE Flatten(_)
Flatten(seqs) ==
    IF seqs = <<>> THEN <<>> ELSE Head(seqs) \o Flatten(Tail(seqs))

\* ------------------------------------------------------- libc helpers
\* CMSG_ALIGN(len) = (len + size_of::<usize>() - 1) & !(size_of::<usize>() - 1)
CMSG_ALIGN(len) == ((len + SizeOfUsize - 1) \div SizeOfUsize) * SizeOfUsize

\* CMSG_ALIGN on a size in words
AlignWords(w) == ((w + 1) \div 2) * 2

\* CMSG_SPACE(length: c_uint) -> c_uint, in words:
\* (CMSG_ALIGN(length) + CMSG_ALIGN(size_of::<cmsghdr>())) as c_uint
CMSG_SPACE_unaligned(w) == (w + SizeOfCmsghdr \div 4) % U32Words
CMSG_SPACE(w) == (AlignWords(w) + SizeOfCmsghdr \div 4) % U32Words

\* CMSG_LEN(length: c_uint) -> c_uint computes header + length in c_uint:
\* TRUE when that addition overflows
CMSG_LEN_overflows(w) == w + SizeOfCmsghdr \div 4 >= U32Words

\* CMSG_FIRSTHDR of a control buffer of controllen bytes at offset 0
CMSG_FIRSTHDR(controllen) == IF controllen >= SizeOfCmsghdr THEN 0 ELSE NULL

\* CMSG_NXTHDR(mhdr, cmsg) of libc for Linux
CMSG_NXTHDR(buf, controllen, cmsg) ==
    LET len == ReadUsize(buf, cmsg) IN
    IF len < SizeOfCmsghdr THEN NULL
    ELSE LET next == cmsg + CMSG_ALIGN(len) IN
         IF next + SizeOfCmsghdr > controllen THEN NULL
         ELSE IF next + CMSG_ALIGN(ReadUsize(buf, next)) > controllen
              THEN NULL
              ELSE next

\* ----------------------------------------------------- the write path
\* for byte in &mut buffer[*length..new_length] { *byte = 0 }
ZeroFill_skipped(buf, from, to) == buf
ZeroFill(buf, from, to) ==
    SubSeq(buf, 1, from) \o [i \in 1 .. (to - from) |-> 0] \o SubSeq(buf, to + 1, Len(buf))

\* the header the walk of lines 57..62 ends on
RECURSIVE LastHdr(_, _, _, _)
LastHdr(buf, controllen, cmsg, previous_cmsg) ==
    IF cmsg # NULL /\ ReadUsize(buf, cmsg) > 0
    THEN LastHdr(buf, controllen, CMSG_NXTHDR(buf, controllen, cmsg), cmsg)
    ELSE previous_cmsg

Outcome(buf, len, ret) == [buffer |-> buf, length |-> len, ret |-> ret]

\* add_to_ancillary_data::<T>. source is [n |-> source.len(), bytes |-> the
\* records' raw bytes, spelled out when n is small], size is size_of::<T>(),
\* overflow_checks is the build's setting. ret is "true" or "false", or
\* "panic" / "ub" when the call does not return.
add_to_ancillary_data(buf, len, source, size, cmsg_level, cmsg_type, overflow_checks) ==
    LET source_words == source.n * (size \div 4) IN
    \* lines 24..32: source_len must fit u32 (checked_mul cannot fail on a
    \* slice, whose byte size is at most isize::MAX)
    IF source_words >= U32Words THEN Outcome(buf, len, "false")
    ELSE
    LET space_words == CMSG_SPACE(source_words) IN
    \* lines 35..45 (checked_add of a value below 2^32 and a length that is
    \* at most the capacity cannot fail on 64 bits)
    IF space_words > Capacity \/ 4 * space_words + len > Capacity
    THEN Outcome(buf, len, "false")
    ELSE
    LET new_length == 4 * space_words + len
        zeroed == ZeroFill(buf, len, new_length)
        first == CMSG_FIRSTHDR(new_length)
        previous_cmsg == LastHdr(zeroed, new_length, first, first)
    IN
    \* lines 64..66
    IF previous_cmsg = NULL THEN Outcome(zeroed, new_length, "false")
    ELSE
    LET levelled == WriteBytes(zeroed, previous_cmsg + 8,
                               Le32(cmsg_level) \o Le32(cmsg_type))
    IN
    \* line 70: CMSG_LEN adds in c_uint
    IF CMSG_LEN_overflows(source_words) /\ overflow_checks
    THEN Outcome(levelled, new_length, "panic")
    \* line 74: memcpy of source_len bytes to CMSG_DATA(previous_cmsg)
    ELSE IF source_words > Capacity
            \/ previous_cmsg + SizeOfCmsghdr + 4 * source_words > Capacity
    THEN Outcome(levelled, new_length, "ub")
    ELSE
    LET headed == WriteUsize(levelled, previous_cmsg,
                             SizeOfCmsghdr + 4 * source_words)
    IN Outcome(WriteBytes(headed, previous_cmsg + SizeOfCmsghdr, source.bytes),
               new_length, "true")

\* ------------------------------------------------------ the read path
\* line 243: cmsg.cmsg_len as usize - CMSG_LEN(0) as usize, for a cmsg_len of
\* at least the header size
DataLen_padded(cmsg_len) == CMSG_ALIGN(cmsg_len) - SizeOfCmsghdr
DataLen(cmsg_len) == cmsg_len - SizeOfCmsghdr

\* AncillaryData::try_from_cmsghdr on the header at offset cmsg. status is
\* "ok" with the classified item, "panic" (the subtraction of line 243 under
\* overflow checks) or "ub" (from_raw_parts over more than isize::MAX bytes,
\* or over memory beyond the caller's buffer).
try_from_cmsghdr(buf, cmsg, overflow_checks) ==
    LET cmsg_len == ReadUsize(buf, cmsg)
        level == ReadI32(buf, cmsg + 8)
        type == ReadI32(buf, cmsg + 12)
        data_len == DataLen(cmsg_len)
        item(kind) == [kind |-> kind, hdr |-> cmsg, cmsg_level |-> level,
                       cmsg_type |-> type, data |-> cmsg + SizeOfCmsghdr,
                       data_len |-> data_len]
        none == [kind |-> "none", hdr |-> cmsg, cmsg_level |-> level,
                 cmsg_type |-> type, data |-> cmsg + SizeOfCmsghdr,
                 data_len |-> 0]
    IN
    IF cmsg_len < SizeOfCmsghdr
    THEN [status |-> IF overflow_checks THEN "panic" ELSE "ub", item |-> none]
    ELSE IF cmsg + SizeOfCmsghdr + data_len > Capacity
    THEN [status |-> "ub", item |-> none]
    ELSE IF level = SOL_SOCKET /\ type = SCM_RIGHTS
    THEN [status |-> "ok", item |-> item("ScmRights")]
    ELSE IF level = SOL_SOCKET /\ type = SCM_CREDENTIALS
    THEN [status |-> "ok", item |-> item("ScmCredentials")]
    ELSE [status |-> "ok", item |-> item("Unknown")]

\* SocketAncillary::messages: the iterator over &buffer[..length]
messages(len) ==
    [status |-> "active", len |-> len, current |-> NULL, out |-> <<>>]

\* no Messages value borrows the buffer
NoMessages == [status |-> "none", len |-> 0, current |-> NULL, out |-> <<>>]

\* Messages::next: the iterator after the call. status "end" is the None
\* result; otherwise the yielded item is appended to out.
Messages_next(m, buf, overflow_checks) ==
    LET cmsg == IF m.current # NULL
                THEN CMSG_NXTHDR(buf, m.len, m.current)
                ELSE CMSG_FIRSTHDR(m.len)
    IN
    IF cmsg = NULL THEN [m EXCEPT !.status = "end"]
    ELSE LET r == try_from_cmsghdr(buf, cmsg, overflow_checks) IN
         IF r.status = "ok"
         THEN [m EXCEPT !.current = cmsg, !.out = Append(@, r.item)]
         ELSE [m EXCEPT !.current = cmsg, !.status = r.status]

\* ScmRights: AncillaryDataIter<RawFd> over the item's data, run to its end
ScmRights(buf, item) ==
    [i \in 1 .. (item.data_len \div SizeOfRawFd) |->
        ReadI32(buf, item.data + SizeOfRawFd * (i - 1))]

\* ScmCredentials: AncillaryDataIter<libc::ucred> over the item's data
ScmCredentials(buf, item) ==
    [i \in 1 .. (item.data_len \div SizeOfUcred) |->
        LET at == item.data + SizeOfUcred * (i - 1) IN
        [pid |-> ReadI32(buf, at), uid |-> ReadU32(buf, at + 4),
         gid |-> ReadU32(buf, at + 8)]]

\* ---------------------------------------------------------- the state
VARIABLES
    buffer,          \* SocketAncillary.buffer: the borrowed bytes
    length,          \* SocketAncillary.length
    truncated,       \* SocketAncillary.truncated
    overflow_checks, \* the build: TRUE with overflow checks (debug profile)
    msgs,            \* the Messages value borrowing the buffer, if any
    twin,            \* a second SocketAncillary of the same capacity over
                     \* other initial bytes, given the same calls
    call,            \* the last call that took &mut self, its arguments, its
                     \* result and the length and flag it found
    hist,            \* the successful appends since new() / clear()
    only_appends     \* TRUE while every call since new() / clear() was an
                     \* append that returned true

vars == <<buffer, length, truncated, overflow_checks, msgs, twin, call, hist, only_appends>>

\* ------------------------------------------------------------ inputs
\* the bytes of the caller's buffer before new(), and those of the twin's
Stale == [i \in 1 .. Capacity |-> 85]
TwinStale == [i \in 1 .. Capacity |-> 51 + (i % 2)]

\* the descriptors and credentials callers pass: the prefixes of these
FdList == <<258, 3, 7, 1025>>
CredList ==
    << [pid |-> 258, uid |-> 1000, gid |-> 3],
       [pid |-> 7, uid |-> 0, gid |-> 513],
       [pid |-> 1, uid |-> 2, gid |-> 4] >>

\* slices too long to spell out. Descriptors: the byte size wraps CMSG_SPACE
\* to 0 and to 8, or does not fit u32. Credentials: it wraps CMSG_SPACE to 16.
HugeFdCounts == {U32Words - 5, U32Words - 3, U32Words}
HugeCredCounts == {(U32Words - 1) \div 3}

\* a source slice: its length and, for a short one, its elements
FdSources ==
    {[n |-> k, recs |-> SubSeq(FdList, 1, k)] : k \in 0 .. MaxFds}
        \cup {[n |-> c, recs |-> <<>>] : c \in HugeFdCounts}
CredSources ==
    {[n |-> k, recs |-> SubSeq(CredList, 1, k)] : k \in 0 .. MaxCreds}
        \cup {[n |-> c, recs |-> <<>>] : c \in HugeCredCounts}

FdSlice(src) ==
    [n |-> src.n, bytes |-> Flatten([i \in 1 .. Len(src.recs) |-> FdBytes(src.recs[i])])]
CredSlice(src) ==
    [n |-> src.n, bytes |-> Flatten([i \in 1 .. Len(src.recs) |-> CredBytes(src.recs[i])])]

\* control data a receive call may leave in the buffer: one header with the
\* given cmsg_len, level and type and, past a 16-byte header, 8 payload
\* bytes; then (with follow) a well-formed SCM_RIGHTS message carrying the
\* descriptor 258
RecvHeaders ==
    { <<24, SOL_SOCKET, SCM_RIGHTS>>, <<24, SOL_SOCKET, SCM_CREDENTIALS>>,
      <<16, SOL_SOCKET, 29>>, <<24, 41, SCM_RIGHTS>>, <<17, SOL_SOCKET, 29>>,
      <<0, 0, 0>>, <<8, SOL_SOCKET, SCM_RIGHTS>>, <<8, 41, 29>>,
      <<40, SOL_SOCKET, SCM_RIGHTS>>, <<4096, SOL_SOCKET, SCM_RIGHTS>> }
RecvData(hdr, follow) ==
    Le32(hdr[1]) \o <<0, 0, 0, 0>> \o Le32(hdr[2]) \o Le32(hdr[3])
        \o (IF hdr[1] > SizeOfCmsghdr THEN FdBytes(3) \o FdBytes(7) ELSE <<>>)
        \o (IF follow
            THEN Le32(SizeOfCmsghdr + SizeOfRawFd) \o <<0, 0, 0, 0>>
                    \o Le32(SOL_SOCKET) \o Le32(SCM_RIGHTS)
                    \o FdBytes(258) \o <<0, 0, 0, 0>>
            ELSE <<>>)

\* ------------------------------------------------------------- Init
\* SocketAncillary::new over a buffer of Capacity bytes
Init ==
    /\ buffer = Stale
    /\ length = 0
    /\ truncated = FALSE
    /\ overflow_checks \in BOOLEAN
    /\ msgs = NoMessages
    /\ twin = [buffer |-> TwinStale, length |-> 0, ret |-> "none"]
    /\ call = [op |-> "new", src |-> [n |-> 0, recs |-> <<>>], ret |-> "none",
               length |-> 0, truncated |-> FALSE]
    /\ hist = <<>>
    /\ only_appends = TRUE

\* a call taking &mut self needs the buffer unborrowed and a process that
\* has not panicked or run into undefined behaviour
Callable ==
    /\ msgs.status = "none"
    /\ call.ret \notin {"panic", "ub"}

\* --------------------------------------------------------- actions
\* the flag after add_fds / add_creds (lines 356, 369): cleared before the
\* append is tried
TruncatedAfterAdd_kept_on_failure(flag, ret) == IF ret = "true" THEN FALSE ELSE flag
TruncatedAfterAdd(flag, ret) == FALSE

add(op, src, slice, size, cmsg_type) ==
    LET r == add_to_ancillary_data(buffer, length, slice, size, SOL_SOCKET, cmsg_type, overflow_checks)
        t == add_to_ancillary_data(twin.buffer, twin.length, slice, size, SOL_SOCKET, cmsg_type, overflow_checks)
    IN
    /\ Callable
    /\ buffer' = r.buffer
    /\ length' = r.length
    /\ truncated' = TruncatedAfterAdd(truncated, r.ret)
    /\ twin' = t
    /\ call' = [op |-> op, src |-> src, ret |-> r.ret, length |-> length,
                truncated |-> truncated]
    /\ hist' = IF r.ret = "true"
               THEN hist \o <<[op |-> op, recs |-> src.recs]>>
               ELSE hist
    /\ only_appends' = (only_appends /\ r.ret = "true")
    /\ UNCHANGED <<overflow_checks, msgs>>

\* SocketAncillary::add_fds
add_fds == \E src \in FdSources :
    add("add_fds", src, FdSlice(src), SizeOfRawFd, SCM_RIGHTS)

\* SocketAncillary::add_creds
add_creds == \E src \in CredSources :
    add("add_creds", src, CredSlice(src), SizeOfUcred, SCM_CREDENTIALS)

\* SocketAncillary::clear
clear ==
    /\ Callable
    /\ length' = 0
    /\ truncated' = FALSE
    /\ twin' = [twin EXCEPT !.length = 0, !.ret = "none"]
    /\ call' = [op |-> "clear", src |-> [n |-> 0, recs |-> <<>>], ret |-> "none",
                length |-> length, truncated |-> truncated]
    /\ hist' = <<>>
    /\ only_appends' = TRUE
    /\ UNCHANGED <<buffer, overflow_checks, msgs>>

\* the socket's receive call on a freshly constructed SocketAncillary: the
\* kernel's control data lands in the buffer, and the caller sets length
\* and truncated from the msghdr
recv == \E hdr \in RecvHeaders, follow \in BOOLEAN, flag \in BOOLEAN :
    LET data == RecvData(hdr, follow) IN
    /\ Callable
    /\ call.op = "new"
    /\ Len(data) <= Capacity
    /\ buffer' = WriteBytes(buffer, 0, data)
    /\ length' = Len(data)
    /\ truncated' = flag
    /\ twin' = [buffer |-> WriteBytes(twin.buffer, 0, data), length |-> Len(data),
                ret |-> "none"]
    /\ call' = [op |-> "recv", src |-> [n |-> 0, recs |-> <<>>], ret |-> "none",
                length |-> length, truncated |-> truncated]
    /\ hist' = <<>>
    /\ only_appends' = FALSE
    /\ UNCHANGED <<overflow_checks, msgs>>

\* SocketAncillary::messages
Messages ==
    /\ msgs.status = "none"
    /\ call.ret \notin {"panic", "ub"}
    /\ msgs' = messages(length)
    /\ UNCHANGED <<buffer, length, truncated, overflow_checks, twin, call, hist, only_appends>>

\* Messages::next
next ==
    /\ msgs.status = "active"
    /\ msgs' = Messages_next(msgs, buffer, overflow_checks)
    /\ UNCHANGED <<buffer, length, truncated, overflow_checks, twin, call, hist, only_appends>>

\* the Messages value is dropped and its borrow of the buffer ends
drop ==
    /\ msgs.status \in {"active", "end"}
    /\ msgs' = NoMessages
    /\ UNCHANGED <<buffer, length, truncated, overflow_checks, twin, call, hist, only_appends>>

Next == add_fds \/ add_creds \/ clear \/ recv \/ Messages \/ next \/ drop

Spec == Init /\ [][Next]_vars

\* ------------------------------------------------------------ claims
Adds == {"add_fds", "add_creds"}

\* size_of::<T>() of the records a call appends
RecordSize(op) == IF op = "add_fds" THEN SizeOfRawFd ELSE SizeOfUcred

\* header plus payload of n records, the payload rounded up to 8 bytes
PaddedSize(op, n) ==
    LET payload == n * RecordSize(op) IN
    SizeOfCmsghdr + payload + ((SizeOfUsize - (payload % SizeOfUsize)) % SizeOfUsize)

\* the call's records are spelled out and their padded message fits an
\* empty buffer
FitsEmpty(c) == c.src.n <= Capacity /\ PaddedSize(c.op, c.src.n) <= Capacity

\* what a caller reads from yielded items: the kind of each and its records
Yielded(items) ==
    [i \in 1 .. Len(items) |->
        IF items[i].kind = "ScmRights"
        THEN [op |-> "add_fds", recs |-> ScmRights(buffer, items[i])]
        ELSE IF items[i].kind = "ScmCredentials"
        THEN [op |-> "add_creds", recs |-> ScmCredentials(buffer, items[i])]
        ELSE [op |-> "unknown", recs |-> <<>>]]

\* the iterator has been run until it stopped
Walked == msgs.status \in {"end", "panic", "ub"}

\* C2: on a buffer with len() = 0, an append of records whose padded message
\* fits the capacity returns true, and messages() then yields exactly one
\* item, of the call's kind, whose records are the call's records in order,
\* and then ends.
C2_RoundTrip ==
    (call.op \in Adds /\ call.length = 0 /\ FitsEmpty(call)) =>
        /\ call.ret = "true"
        /\ Walked =>
            /\ msgs.status = "end"
            /\ Yielded(msgs.out) = <<[op |-> call.op, recs |-> call.src.recs]>>

\* a reused buffer (bytes past the message are not the initial ones) holds one
\* message of two descriptors, read back to the end
C2_Witness ==
    /\ call.op = "add_fds" /\ call.length = 0 /\ call.src.n = 2
    /\ call.ret = "true"
    /\ msgs.status = "end" /\ Len(msgs.out) = 1
    /\ \E i \in (length + 1) .. Capacity : buffer[i] # Stale[i]

\* C8: 0 <= len() <= capacity(), the capacity never changes, a successful
\* append adds exactly the padded size of one header plus its payload to
\* len(), and clear() sets it to 0.
C8_LengthBookkeeping ==
    /\ 0 <= length /\ length <= Capacity
    /\ Len(buffer) = Capacity
    /\ (call.op \in Adds /\ call.ret = "true") =>
            length = call.length + PaddedSize(call.op, call.src.n)
    /\ call.op = "clear" => length = 0

\* a second message with an odd number of descriptors (4 bytes of padding)
C8_Witness ==
    /\ call.op = "add_fds" /\ call.ret = "true"
    /\ call.src.n = 1 /\ call.length > 0

\* C9: two buffers of equal capacity over different initial bytes, given the
\* same calls, return the same results and hold the same bytes in
\* buffer[0..len()]. (A call that ran into undefined behaviour has no result
\* to compare.)
C9_NoLeak ==
    call.ret # "ub" =>
        /\ twin.ret = call.ret
        /\ twin.length = length
        /\ SubSeq(twin.buffer, 1, length) = SubSeq(buffer, 1, length)

\* after clear(), a message with padding written over used bytes, the rest of
\* the two buffers still differing
C9_Witness ==
    /\ call.op = "add_fds" /\ call.ret = "true" /\ call.src.n = 1
    /\ call.length = 0
    /\ \E i \in (length + 1) .. Capacity : buffer[i] # Stale[i]
    /\ \E i \in (length + 1) .. Capacity : buffer[i] # twin.buffer[i]

\* C7 as stated: an add_fds / add_creds call that returns false leaves
\* truncated() as it was.
C7_FailedAppendKeepsFlag ==
    [][(call'.op \in Adds /\ call'.ret = "false") => truncated' = truncated]_vars

\* C7 amended: every add_fds / add_creds call clears the flag, whatever it
\* returns, as clear() does: after such a call truncated() is false.
C7_EveryAppendClears ==
    call.op \in Adds \cup {"clear"} => truncated = FALSE

\* a rejected append found the flag set by the receive call and cleared it
C7_Witness ==
    /\ call.op \in Adds /\ call.ret = "false"
    /\ call.truncated = TRUE /\ truncated = FALSE

\* C1: after k successful appends on a buffer that started empty, messages()
\* yields exactly k items in append order, each with the records of its call.
C1_AppendsPackInOrder ==
    (only_appends /\ Walked) =>
        /\ msgs.status = "end"
        /\ Yielded(msgs.out) = hist

\* C3: an append that returns false leaves len() and every byte of the
\* buffer as they were.
C3_FailedAppendNoEffect ==
    [][(call'.op \in Adds /\ call'.ret = "false") =>
          (buffer' = buffer /\ length' = length)]_vars

\* the byte size of the call's records, or their padded message, does not
\* fit the 32-bit length field (sizes in 4-byte words)
Overflows(c) ==
    LET words == c.src.n * (RecordSize(c.op) \div 4) IN
    words + (words % 2) + SizeOfCmsghdr \div 4 >= U32Words

\* C3 for the appends whose sizes fit the length field: rejected for lack of
\* capacity, they change nothing
C3_NoEffect_WithoutOverflow ==
    [][(call'.op \in Adds /\ call'.ret = "false" /\ ~Overflows(call')) =>
          (buffer' = buffer /\ length' = length)]_vars

\* C4: an append whose record bytes or padded size overflow the length field
\* returns false and writes nothing.
C4_OverflowFailsClosed ==
    [][(call'.op \in Adds /\ Overflows(call')) =>
          (call'.ret = "false" /\ buffer' = buffer /\ length' = length)]_vars

\* C5: every Messages::next() call returns an item or the end of the
\* sequence, whatever the bytes of buffer[0..len()]: it never aborts, and
\* the payload length it computes never underflows.
C5_ReadNeverAborts == msgs.status \in {"none", "active", "end"}

\* the (level, type) of the header at offset cmsg is not a recognized kind
UnknownKind(cmsg) ==
    ~ /\ ReadI32(buffer, cmsg + 8) = SOL_SOCKET
      /\ ReadI32(buffer, cmsg + 12) \in {SCM_RIGHTS, SCM_CREDENTIALS}

\* a whole message lies at offset cmsg of buffer[0..len()]
WellFormedAt(cmsg) ==
    /\ cmsg + SizeOfCmsghdr <= msgs.len
    /\ ReadUsize(buffer, cmsg) >= SizeOfCmsghdr
    /\ cmsg + ReadUsize(buffer, cmsg) <= msgs.len

\* the header next() has just visited is of an unknown kind: it was yielded
\* as Unknown with its level and type
UnknownReported ==
    (msgs.status # "none" /\ msgs.current # NULL /\ UnknownKind(msgs.current)) =>
        /\ msgs.out # <<>>
        /\ LET last == msgs.out[Len(msgs.out)] IN
            /\ last.kind = "Unknown" /\ last.hdr = msgs.current
            /\ last.cmsg_level = ReadI32(buffer, msgs.current + 8)
            /\ last.cmsg_type = ReadI32(buffer, msgs.current + 12)
        /\ Cardinality({i \in 1 .. Len(msgs.out) : msgs.out[i].hdr = msgs.current}) = 1

\* once the walk has stopped, the well-formed message after each yielded
\* Unknown has been yielded too
WalkContinues ==
    Walked =>
        \A i \in 1 .. Len(msgs.out) :
            LET after == msgs.out[i].hdr + CMSG_ALIGN(ReadUsize(buffer, msgs.out[i].hdr)) IN
            (msgs.out[i].kind = "Unknown" /\ WellFormedAt(after)) =>
                /\ i < Len(msgs.out)
                /\ msgs.out[i + 1].hdr = after

\* C6: a header of an unknown kind yields exactly one Unknown carrying its
\* level and type, at its position, and the well-formed headers after it are
\* still yielded.
C6_UnknownInBand == UnknownReported /\ WalkContinues

\* C6 for the headers whose cmsg_len covers at least the header and whose
\* payload ends inside the caller's buffer
C6_UnknownInBand_WellSized ==
    /\ (msgs.status # "none" /\ msgs.current # NULL
            /\ ReadUsize(buffer, msgs.current) >= SizeOfCmsghdr
            /\ msgs.current + ReadUsize(buffer, msgs.current) <= Capacity)
         => UnknownReported
    /\ msgs.status = "end" => WalkContinues

\* C10: the header and the payload slice of every yielded item lie inside
\* buffer[0..len()].
C10_ReadStaysInside ==
    \A i \in 1 .. Len(msgs.out) :
        /\ msgs.out[i].hdr + SizeOfCmsghdr <= msgs.len
        /\ msgs.out[i].data + msgs.out[i].data_len <= msgs.len

====
